---- MODULE Spec2Model ----
(***************************************************************************)
(* A model of authors.py: the author-list pipeline of main() and its       *)
(* helper functions.                                                       *)
(*                                                                         *)
(* Strings are sequences of one-character strings over the alphabet        *)
(* a A b B, the blank and the comma, so that strip(), split(), join(),     *)
(* lower() and upper() are computed and not assumed.  An Authorname is a   *)
(* positive integer standing for a name string; the order of the integers  *)
(* is the order np.unique sorts the strings in.  None is 0.  Affiliations  *)
(* and emails are atomic strings, "" the blank one.                        *)
(*                                                                         *)
(* Left out: the ORCID and Country columns and the text of the TeX and CSV *)
(* files (only the fact that a file was written is kept); the similarity   *)
(* function of fuzzywuzzy, which is an arbitrary score per "First Last"    *)
(* string here.                                                            *)
(*                                                                         *)
(* Specifications: Spec runs main(); SpecResolve, SpecFuzzy, SpecMerge and *)
(* SpecAffil run find_author_name_in_table, find_closest_author_match, the *)
(* merge step and generate_numbered_affiliation_output on inputs of their  *)
(* own.                                                                    *)
(***************************************************************************)
EXTENDS Integers, Sequences, FiniteSets, TLC

VARIABLES
    \* find_author_name_in_table called on its own
    full_name, res_table, res_result, res_pc,
    \* find_closest_author_match called on its own: the table, the score the
    \* similarity function gives each "First Last" string for the target
    \* name, the rows process.extract ranked, and the returned list
    fz_table, fz_score, fz_ranked, fz_result, fz_pc,
    \* the merge step of main() run on its own: the table as read, the table
    \* after the merge
    m_raw, m_table, m_pc,
    \* generate_numbered_affiliation_output called on its own: the table, the
    \* dict affiliation_to_number, and the lines written to the two files
    aff_table, affiliation_to_number, authors_file, affiliations_file, aff_pc,
    \* main(): the position in main, the parsed command line, the two author
    \* lists, the table, the order counter, the index of the running loop
    pc, args, first_tier_authors, infrastructure_authors, table, current_order, idx,
    \* the state of tier 2: the resolved first-tier names, the matches found,
    \* the names left unmatched, the candidates shown at the prompt
    first_tier_author_names, infrastructure_found, unmatched_infrastructure,
    available_matches,
    \* the files read and written so far, and the exit status (-1: running)
    files_read, files_written, exit_status,
    \* history: the Authorname each first-tier line resolved to, what happened
    \* to each infrastructure name, and the tier that last set a row's Order
    tier1_resolved, infra_log, placed_by

resVars == <<full_name, res_table, res_result, res_pc>>
fzVars == <<fz_table, fz_score, fz_ranked, fz_result, fz_pc>>
mVars == <<m_raw, m_table, m_pc>>
affVars == <<aff_table, affiliation_to_number, authors_file, affiliations_file, aff_pc>>
mainVars == <<pc, args, first_tier_authors, infrastructure_authors, table, current_order,
              idx, first_tier_author_names, infrastructure_found,
              unmatched_infrastructure, available_matches, files_read, files_written,
              exit_status, tier1_resolved, infra_log, placed_by>>
vars == <<resVars, fzVars, mVars, affVars, mainVars>>

None == 0

\* the variables of a part of the model that a specification does not run
FzIdle ==
    /\ fz_table = <<>>
    /\ fz_score = <<>>
    /\ fz_ranked = <<>>
    /\ fz_result = <<>>
    /\ fz_pc = "idle"

ResIdle ==
    /\ full_name = <<>>
    /\ res_table = <<>>
    /\ res_result = None
    /\ res_pc = "idle"

MIdle ==
    /\ m_raw = <<>>
    /\ m_table = <<>>
    /\ m_pc = "idle"

MainIdle ==
    /\ pc = "idle"
    /\ args = <<>>
    /\ first_tier_authors = <<>>
    /\ infrastructure_authors = <<>>
    /\ table = <<>>
    /\ current_order = 0
    /\ idx = 0
    /\ first_tier_author_names = {}
    /\ infrastructure_found = <<>>
    /\ unmatched_infrastructure = <<>>
    /\ available_matches = <<>>
    /\ files_read = {}
    /\ files_written = <<>>
    /\ exit_status = -1
    /\ tier1_resolved = <<>>
    /\ infra_log = <<>>
    /\ placed_by = <<>>

AffIdle ==
    /\ aff_table = <<>>
    /\ affiliation_to_number = <<>>
    /\ authors_file = <<>>
    /\ affiliations_file = <<>>
    /\ aff_pc = "idle"

--------------------------------------------------------------------------
\* Python's string operations, as the code uses them

lower_char(c) ==
    CASE c = "A" -> "a"
      [] c = "B" -> "b"
      [] OTHER -> c

upper_char(c) ==
    CASE c = "a" -> "A"
      [] c = "b" -> "B"
      [] OTHER -> c

\* code points, for the comparison of strings
ord(c) ==
    CASE c = " " -> 32
      [] c = "," -> 44
      [] c = "A" -> 65
      [] c = "B" -> 66
      [] c = "a" -> 97
      [] c = "b" -> 98

lower(s) == [i \in DOMAIN s |-> lower_char(s[i])]

upper(s) == [i \in DOMAIN s |-> upper_char(s[i])]

RECURSIVE lstrip(_)
lstrip(s) ==
    IF s # <<>> /\ Head(s) = " " THEN lstrip(Tail(s)) ELSE s

RECURSIVE rstrip(_, _)
rstrip(s, c) ==
    IF s # <<>> /\ s[Len(s)] = c THEN rstrip(SubSeq(s, 1, Len(s) - 1), c) ELSE s

strip(s) == rstrip(lstrip(s), " ")

\* str.split(): the maximal runs of non-blank characters
RECURSIVE split_acc(_, _, _)
split_acc(s, cur, acc) ==
    IF s = <<>>
    THEN IF cur = <<>> THEN acc ELSE Append(acc, cur)
    ELSE IF Head(s) = " "
         THEN split_acc(Tail(s), <<>>, IF cur = <<>> THEN acc ELSE Append(acc, cur))
         ELSE split_acc(Tail(s), Append(cur, Head(s)), acc)

split(s) == split_acc(s, <<>>, <<>>)

\* ' '.join(words)
RECURSIVE join(_)
join(words) ==
    IF words = <<>> THEN <<>>
    ELSE IF Len(words) = 1 THEN words[1]
    ELSE words[1] \o <<" ">> \o join(Tail(words))

\* s < t for Python strings: lexicographic by code point
RECURSIVE str_less(_, _)
str_less(s, t) ==
    IF t = <<>> THEN FALSE
    ELSE IF s = <<>> THEN TRUE
    ELSE IF ord(Head(s)) # ord(Head(t)) THEN ord(Head(s)) < ord(Head(t))
    ELSE str_less(Tail(s), Tail(t))

--------------------------------------------------------------------------
\* find_author_name_in_table (lines 21-47)

\* the comparison of one table row with one split of the name (lines 40-44)
row_matches(row, first_name, last_name) ==
    LET table_first == strip(row.Firstname)
        table_last == rstrip(strip(row.Lastname), ",")
    IN  /\ lower(table_first) = lower(first_name)
        /\ lower(table_last) = lower(last_name)

\* for row in table: ... return row['Authorname'] (lines 38-45)
RECURSIVE scan_rows(_, _, _, _)
scan_rows(tbl, first_name, last_name, k) ==
    IF k > Len(tbl) THEN None
    ELSE IF row_matches(tbl[k], first_name, last_name)
         THEN tbl[k].Authorname
         ELSE scan_rows(tbl, first_name, last_name, k + 1)

\* a slip in the range of the loop: range(1, len(name_parts) - 1) never tries
\* the last split point
RECURSIVE try_splits_short(_, _, _)
try_splits_short(name_parts, tbl, i) ==
    IF i >= Len(name_parts) - 1 THEN None
    ELSE LET first_name == strip(join(SubSeq(name_parts, 1, i)))
             last_name == strip(join(SubSeq(name_parts, i + 1, Len(name_parts))))
             found == scan_rows(tbl, first_name, last_name, 1)
         IN  IF found # None THEN found
             ELSE try_splits_short(name_parts, tbl, i + 1)

\* for i in range(1, len(name_parts)) (lines 33-45)
RECURSIVE try_splits(_, _, _)
try_splits(name_parts, tbl, i) ==
    IF i >= Len(name_parts) THEN None
    ELSE LET first_name == strip(join(SubSeq(name_parts, 1, i)))
             last_name == strip(join(SubSeq(name_parts, i + 1, Len(name_parts))))
             found == scan_rows(tbl, first_name, last_name, 1)
         IN  IF found # None THEN found ELSE try_splits(name_parts, tbl, i + 1)

find_author_name_in_table(name, tbl) ==
    LET name_parts == split(strip(name))
    IN  IF Len(name_parts) < 2 THEN None
        ELSE try_splits(name_parts, tbl, 1)

--------------------------------------------------------------------------
\* find_closest_author_match (lines 49-72)

threshold_default == 70
extract_limit == 3

\* the "First Last" string of a row (lines 54-56)
full_name_of(row) ==
    strip(row.Firstname) \o <<" ">> \o rstrip(strip(row.Lastname), ",")

\* full_names (lines 52-57): (full_name, Authorname) per row, in table order
full_names_of(tbl) ==
    [k \in DOMAIN tbl |-> <<full_name_of(tbl[k]), tbl[k].Authorname>>]

\* process.extract(target_name, choices, limit=3) (line 60): the positions of
\* the choices it returns, best score first.  The library scores every
\* choice and keeps the `limit` largest; the order among equal scores is the
\* library's, so every order is possible here.
process_extract(score, choices, limit) ==
    LET n == Len(choices)
        m == IF n < limit THEN n ELSE limit
        sc(k) == score[choices[k]]
    IN  {r \in [1 .. m -> 1 .. n] :
            /\ \A i, j \in 1 .. m : i # j => r[i] # r[j]
            /\ \A i \in 1 .. m - 1 : sc(r[i]) >= sc(r[i + 1])
            /\ \A k \in 1 .. n :
                   (\A i \in 1 .. m : r[i] # k) => \A i \in 1 .. m : sc(k) <= sc(r[i])}

\* for full_name, author_name in full_names: if full_name == match_name
\* (lines 67-70): the first entry of full_names with that string
RECURSIVE lookup_full_name(_, _, _)
lookup_full_name(full_names, match_name, k) ==
    IF k > Len(full_names) THEN <<>>
    ELSE IF full_names[k][1] = match_name
         THEN <<full_names[k][2]>>
         ELSE lookup_full_name(full_names, match_name, k + 1)

\* the loop over best_matches (lines 63-70)
RECURSIVE valid_matches_of(_, _, _, _)
valid_matches_of(best_matches, full_names, threshold, k) ==
    IF k > Len(best_matches) THEN <<>>
    ELSE LET match_name == best_matches[k][1]
             confidence == best_matches[k][2]
             found == lookup_full_name(full_names, match_name, 1)
             entry == IF confidence >= threshold /\ found # <<>>
                      THEN << <<found[1], confidence, match_name>> >>
                      ELSE <<>>
         IN  entry \o valid_matches_of(best_matches, full_names, threshold, k + 1)

\* find_closest_author_match, given the ranking process.extract returned
find_closest_author_match(ranked, score, tbl, threshold) ==
    LET full_names == full_names_of(tbl)
        best_matches == [k \in DOMAIN ranked |->
                            <<full_names[ranked[k]][1], score[full_names[ranked[k]][1]]>>]
    IN  valid_matches_of(best_matches, full_names, threshold, 1)

--------------------------------------------------------------------------
\* the merge of the rows of one person (main, lines 180-190)

\* a column read under a boolean mask, column[use]: the selected entries in
\* row order
RECURSIVE masked(_, _, _)
masked(column, use, k) ==
    IF k > Len(column) THEN <<>>
    ELSE (IF use[k] THEN <<column[k]>> ELSE <<>>) \o masked(column, use, k + 1)

\* np.unique(table['Authorname']): the distinct names, ascending
RECURSIVE sorted_set(_)
sorted_set(S) ==
    IF S = {} THEN <<>>
    ELSE LET least == CHOOSE x \in S : \A y \in S : x <= y
         IN  <<least>> \o sorted_set(S \ {least})

np_unique(column) == sorted_set({column[k] : k \in DOMAIN column})

\* np.unique(..., return_counts=True)[1]
unique_counts(column) ==
    LET names == np_unique(column)
    IN  [i \in DOMAIN names |-> Cardinality({k \in DOMAIN column : column[k] = names[i]})]

\* np.unique(..., return_index=True)[1]: the first row of each name
unique_index(column) ==
    LET names == np_unique(column)
    IN  [i \in DOMAIN names |->
            CHOOSE k \in DOMAIN column :
                /\ column[k] = names[i]
                /\ \A j \in DOMAIN column : column[j] = names[i] => k <= j]

\* np.amax
RECURSIVE amax(_)
amax(q) ==
    IF Len(q) = 1 THEN q[1]
    ELSE LET rest == amax(Tail(q)) IN IF q[1] >= rest THEN q[1] ELSE rest

\* a slip in line 187: table['Affiliations'][use, 0] = table['Affiliation'][use]
\* gives every row of the person its own affiliation only
assign_affiliations_own(matrix, column, use) ==
    [k \in DOMAIN matrix |->
        IF use[k] THEN [j \in DOMAIN matrix[k] |-> IF j = 1 THEN column[k] ELSE matrix[k][j]]
        ELSE matrix[k]]

\* table['Affiliations'][use, :np.sum(use)] = table['Affiliation'][use]
\* (line 187): the selected affiliations are broadcast to the first n slots
\* of every selected row
assign_affiliations(matrix, column, use) ==
    LET values == masked(column, use, 1)
        n == Len(values)
    IN  [k \in DOMAIN matrix |->
            IF use[k]
            THEN [j \in DOMAIN matrix[k] |-> IF j <= n THEN values[j] ELSE matrix[k][j]]
            ELSE matrix[k]]

\* for name in np.unique(table['Authorname']) (lines 185-187)
RECURSIVE merge_loop(_, _, _, _)
merge_loop(matrix, raw, names, i) ==
    IF i > Len(names) THEN matrix
    ELSE LET use == [k \in DOMAIN raw |-> raw[k].Authorname = names[i]]
             column == [k \in DOMAIN raw |-> raw[k].Affiliation]
         IN  merge_loop(assign_affiliations(matrix, column, use), raw, names, i + 1)

\* lines 181-190, for a table of at least one row: the Affiliations column
\* filled, the Affiliation column removed, the first row of every name kept
merge_affiliations(raw) ==
    LET authornames == [k \in DOMAIN raw |-> raw[k].Authorname]
        width == amax(unique_counts(authornames))
        zeros == [k \in DOMAIN raw |-> [j \in 1 .. width |-> ""]]
        matrix == merge_loop(zeros, raw, np_unique(authornames), 1)
        keep == unique_index(authornames)
    IN  [i \in DOMAIN keep |->
            [Authorname |-> raw[keep[i]].Authorname,
             Firstname |-> raw[keep[i]].Firstname,
             Lastname |-> raw[keep[i]].Lastname,
             Affiliations |-> matrix[keep[i]]]]

--------------------------------------------------------------------------
\* generate_numbered_affiliation_output (lines 98-143)

\* a slip in line 108: without "affl not in affiliation_to_number" a repeated
\* affiliation is numbered again
number_one_again(state, affl) ==
    IF affl # ""
    THEN [map |-> [a \in DOMAIN state.map \cup {affl} |->
                      IF a = affl THEN state.next ELSE state.map[a]],
          next |-> state.next + 1]
    ELSE state

\* lines 108-110 for one affiliation: state is the dict and next_number
number_one(state, affl) ==
    IF affl # "" /\ affl \notin DOMAIN state.map
    THEN [map |-> [a \in DOMAIN state.map \cup {affl} |->
                      IF a = affl THEN state.next ELSE state.map[a]],
          next |-> state.next + 1]
    ELSE state

\* for affl in affls (lines 107-110)
RECURSIVE number_slots(_, _, _)
number_slots(state, affls, j) ==
    IF j > Len(affls) THEN state
    ELSE number_slots(number_one(state, affls[j]), affls, j + 1)

\* for row in table (lines 105-110)
RECURSIVE number_rows(_, _, _)
number_rows(state, tbl, k) ==
    IF k > Len(tbl) THEN state
    ELSE number_rows(number_slots(state, tbl[k].Affiliations, 1), tbl, k + 1)

first_pass(tbl) == number_rows([map |-> <<>>, next |-> 1], tbl, 1).map

\* affl_numbers of one row (lines 125-128)
RECURSIVE affl_numbers(_, _, _)
affl_numbers(map, affls, j) ==
    IF j > Len(affls) THEN <<>>
    ELSE (IF affls[j] # "" THEN <<map[affls[j]]>> ELSE <<>>)
             \o affl_numbers(map, affls, j + 1)

\* the lines of the authors file (lines 113-136): the name and the numbers
\* between the superscript braces
authors_lines(map, tbl) ==
    [k \in DOMAIN tbl |->
        [name |-> tbl[k].Authorname,
         numbers |-> affl_numbers(map, tbl[k].Affiliations, 1)]]

\* sorted(affiliation_to_number.items(), key=lambda x: x[1]) (line 141)
RECURSIVE sorted_items(_)
sorted_items(items) ==
    IF items = {} THEN <<>>
    ELSE LET least == CHOOSE x \in items : \A y \in items : x[2] <= y[2]
         IN  <<least>> \o sorted_items(items \ {least})

\* the lines of the affiliations file (lines 139-143): (affiliation, number)
affiliations_lines(map) == sorted_items({<<a, map[a]>> : a \in DOMAIN map})

--------------------------------------------------------------------------
\* the helpers of main()

\* parse_author_list (lines 7-19) on the lines of an existing file: every
\* line stripped, the empty ones skipped
RECURSIVE parse_author_list(_)
parse_author_list(lines) ==
    IF lines = <<>> THEN <<>>
    ELSE LET line == strip(Head(lines))
         IN  (IF line # <<>> THEN <<line>> ELSE <<>>) \o parse_author_list(Tail(lines))

\* np.full(len(table), 99999) (line 207): the Order of a row no tier has set
unassigned == 99999

\* f"{row['Lastname']},&nbsp;{row['Firstname']}" (line 197)
users_key(row) == row.Lastname \o <<",", "&", "n", "b", "s", "p", ";">> \o row.Firstname

\* lines 196-202: the Email of a row, from the users table
email_of(row, database) ==
    LET use == {k \in DOMAIN database : database[k].Name = users_key(row)}
    IN  IF Cardinality(use) # 1 THEN ""
        ELSE database[CHOOSE k \in use : TRUE].Email

\* table['Order'][matching_rows] = current_order (lines 218-222, 294-296,
\* 309-310)
set_order(t, author_name, order) ==
    [k \in DOMAIN t |->
        IF t[k].Authorname = author_name THEN [t[k] EXCEPT !.Order = order] ELSE t[k]]

\* the history of set_order: the tier that last set the row's Order
placed(by, author_name, tier) == [a \in DOMAIN by |-> IF a = author_name THEN tier ELSE by[a]]

\* lines 230-233: the Authornames the first-tier names resolve to
resolved_first_tier(names, t) ==
    {find_author_name_in_table(names[i], t) : i \in DOMAIN names} \ {None}

\* a slip in line 246: the exact match is not checked against the first tier
is_exact_match_unchecked(table_author_name, first_tier_names) ==
    table_author_name # None

\* the condition of line 246
is_exact_match(table_author_name, first_tier_names) ==
    table_author_name # None /\ table_author_name \notin first_tier_names

\* table['Lastname'][row_index] of the first row of that Authorname
\* (lines 247-251, 271-274)
lastname_of(t, author_name) ==
    t[CHOOSE k \in DOMAIN t :
          /\ t[k].Authorname = author_name
          /\ \A j \in DOMAIN t : t[j].Authorname = author_name => k <= j].Lastname

\* lines 260-263 without the test of line 262: every match is offered
available_of_unfiltered(closest_matches, first_tier_names) == closest_matches

\* lines 260-263: the matches that are not first-tier authors
RECURSIVE available_of(_, _)
available_of(closest_matches, first_tier_names) ==
    IF closest_matches = <<>> THEN <<>>
    ELSE (IF Head(closest_matches)[1] \notin first_tier_names
          THEN <<Head(closest_matches)>> ELSE <<>>)
             \o available_of(Tail(closest_matches), first_tier_names)

\* a slip in the sort key: x[1] instead of x[1].upper()
sort_key_raw(lastname) == lastname

\* key=lambda x: x[1].upper() (lines 291, 306)
sort_key(lastname) == upper(lastname)

\* sorted(pairs, key=...) (lines 291, 306): Python's sort is stable, so an
\* entry goes behind every entry whose key is not greater
RECURSIVE insert_by_key(_, _)
insert_by_key(sorted, x) ==
    IF sorted = <<>> THEN <<x>>
    ELSE IF str_less(sort_key(x[2]), sort_key(Head(sorted)[2]))
         THEN <<x>> \o sorted
         ELSE <<Head(sorted)>> \o insert_by_key(Tail(sorted), x)

RECURSIVE sorted_by_lastname(_)
sorted_by_lastname(pairs) ==
    IF pairs = <<>> THEN <<>>
    ELSE insert_by_key(sorted_by_lastname(SubSeq(pairs, 1, Len(pairs) - 1)),
                       pairs[Len(pairs)])

\* the assignment loops of tiers 2 and 3 (lines 293-297, 308-311): state is
\* the table, the counter and the history
RECURSIVE assign_orders(_, _, _)
assign_orders(state, pairs, tier) ==
    IF pairs = <<>> THEN state
    ELSE LET author_name == Head(pairs)[1]
             hit == \E k \in DOMAIN state.tbl : state.tbl[k].Authorname = author_name
             next == IF hit
                     THEN [tbl |-> set_order(state.tbl, author_name, state.order),
                           order |-> state.order + 1,
                           by |-> placed(state.by, author_name, tier)]
                     ELSE state
         IN  assign_orders(next, Tail(pairs), tier)

\* lines 300-303: the rows whose Order is still the default
RECURSIVE remaining_authors(_)
remaining_authors(t) ==
    IF t = <<>> THEN <<>>
    ELSE (IF Head(t).Order = unassigned
          THEN << <<Head(t).Authorname, Head(t).Lastname>> >> ELSE <<>>)
             \o remaining_authors(Tail(t))

\* table.sort('Order') (line 314)
RECURSIVE insert_by_order(_, _)
insert_by_order(sorted, row) ==
    IF sorted = <<>> THEN <<row>>
    ELSE IF row.Order < Head(sorted).Order
         THEN <<row>> \o sorted
         ELSE <<Head(sorted)>> \o insert_by_order(Tail(sorted), row)

RECURSIVE sort_by_order(_)
sort_by_order(t) ==
    IF t = <<>> THEN <<>>
    ELSE insert_by_order(sort_by_order(SubSeq(t, 1, Len(t) - 1)), t[Len(t)])

\* line 315 left out: the Order values of the tiers are kept
renumber_skipped(t) == t

\* table['Order'] = np.arange(len(table)) + 1 (line 315)
renumber(t) == [k \in DOMAIN t |-> [t[k] EXCEPT !.Order = k]]

--------------------------------------------------------------------------
\* find_author_name_in_table on its own: every name of at most MaxWords
\* words against every table of at most MaxResRows rows

MaxWords == 3
MaxResRows == 2

RECURSIVE SeqsUpTo(_, _)
SeqsUpTo(S, n) ==
    IF n = 0 THEN {<<>>}
    ELSE LET shorter == SeqsUpTo(S, n - 1)
         IN  shorter \cup {Append(q, x) : q \in {r \in shorter : Len(r) = n - 1}, x \in S}

ResWords == {<<"a">>, <<"A">>, <<"b">>}

\* the words joined by one blank, the same between blanks, and the same
\* with two blanks after the first word
ResNames ==
    LET W == SeqsUpTo(ResWords, MaxWords)
    IN  {join(ws) : ws \in W}
        \cup {<<" ">> \o join(ws) \o <<" ">> : ws \in W}
        \cup {ws[1] \o <<" ", " ">> \o join(Tail(ws)) : ws \in {x \in W : Len(x) >= 2}}

ResFirstnames == {<<"a">>, <<" ", "A", " ", "b", " ">>}
ResLastnames == {<<"b">>, <<"B", ",">>, <<"b", " ", "a">>, <<"a">>}

ResTables ==
    LET fields == SeqsUpTo(ResFirstnames \X ResLastnames, MaxResRows)
    IN  {[k \in DOMAIN f |-> [Authorname |-> k, Firstname |-> f[k][1],
                               Lastname |-> f[k][2]]] : f \in fields}

ResInit ==
    /\ full_name \in ResNames
    /\ res_table \in ResTables
    /\ res_result = None
    /\ res_pc = "call"
    /\ FzIdle /\ MIdle /\ AffIdle /\ MainIdle

ResolveCall ==
    /\ res_pc = "call"
    /\ res_result' = find_author_name_in_table(full_name, res_table)
    /\ res_pc' = "returned"
    /\ UNCHANGED <<full_name, res_table, fzVars, mVars, affVars, mainVars>>

ResNext == ResolveCall

SpecResolve == ResInit /\ [][ResNext]_vars

\* C5: find_author_name_in_table returns the Authorname of the row matched
\* at the smallest split index (and, for that split, of the earliest row)
\* whenever some split point i in 1..words-1 makes words[0:i] equal the
\* row's trimmed Firstname and words[i:] equal its Lastname (trimmed, the
\* trailing comma removed), case-insensitively; it returns None when no
\* split matches, so for every name of fewer than two words.
C5_ResolverTriesEverySplit ==
    res_pc = "returned" =>
        LET words == split(strip(full_name))
            n == Len(words)
            Hit(i, k) ==
                /\ lower(join(SubSeq(words, 1, i))) = lower(strip(res_table[k].Firstname))
                /\ lower(join(SubSeq(words, i + 1, n)))
                       = lower(rstrip(strip(res_table[k].Lastname), ","))
            hits == {h \in (1 .. n - 1) \X (1 .. Len(res_table)) : Hit(h[1], h[2])}
        IN  IF hits = {}
            THEN res_result = None
            ELSE \E h \in hits :
                    /\ \A g \in hits : h[1] < g[1] \/ (h[1] = g[1] /\ h[2] <= g[2])
                    /\ res_result = res_table[h[2]].Authorname

\* a three-word name that one row matches at split 2 and a later row at
\* split 1: the later row, matched at the smaller split, is returned
C5_Witness ==
    /\ res_pc = "returned"
    /\ Len(split(strip(full_name))) = 3
    /\ Len(res_table) = 2
    /\ res_table[1].Firstname = <<" ", "A", " ", "b", " ">>
    /\ res_table[1].Lastname = <<"a">>
    /\ res_table[2].Firstname = <<"a">>
    /\ res_table[2].Lastname = <<"b", " ", "a">>
    /\ res_result = 2
--------------------------------------------------------------------------
\* find_closest_author_match on its own: every table of at most MaxFuzzyRows
\* rows and every scoring of their "First Last" strings

MaxFuzzyRows == 4

FzFirstnames == {<<"a">>, <<"A", " ">>}
FzLastnames == {<<"b">>, <<"b", ",">>}
FzScores == {60, 70, 90}

FzTables ==
    LET fields == SeqsUpTo(FzFirstnames \X FzLastnames, MaxFuzzyRows)
    IN  {[k \in DOMAIN f |-> [Authorname |-> k, Firstname |-> f[k][1],
                               Lastname |-> f[k][2]]] : f \in fields}

FzStrings == {full_name_of([Firstname |-> f, Lastname |-> l]) :
                 f \in FzFirstnames, l \in FzLastnames}

FzInit ==
    /\ fz_table \in FzTables
    /\ fz_score \in [FzStrings -> FzScores]
    /\ fz_ranked = <<>>
    /\ fz_result = <<>>
    /\ fz_pc = "call"
    /\ ResIdle /\ MIdle /\ AffIdle /\ MainIdle

FuzzyCall ==
    /\ fz_pc = "call"
    /\ \E ranked \in process_extract(fz_score,
                        [k \in DOMAIN fz_table |-> full_names_of(fz_table)[k][1]],
                        extract_limit) :
          /\ fz_ranked' = ranked
          /\ fz_result' = find_closest_author_match(ranked, fz_score, fz_table,
                                                      threshold_default)
    /\ fz_pc' = "returned"
    /\ UNCHANGED <<fz_table, fz_score, resVars, mVars, affVars, mainVars>>

FzNext == FuzzyCall

SpecFuzzy == FzInit /\ [][FzNext]_vars

\* the ranked rows whose score reaches the threshold, in ranking order
RECURSIVE FzSurvivors(_)
FzSurvivors(ranked) ==
    IF ranked = <<>> THEN <<>>
    ELSE (IF fz_score[full_name_of(fz_table[Head(ranked)])] >= threshold_default
          THEN <<Head(ranked)>> ELSE <<>>) \o FzSurvivors(Tail(ranked))

\* C6: find_closest_author_match returns at most 3 entries, highest
\* confidence first, each with confidence >= 70, one per ranked row that
\* reaches the threshold, and each paired with the Authorname of the row
\* that was scored, also when two rows have the same "First Last" string.
C6_EachMatchHasItsOwnAuthorname ==
    fz_pc = "returned" =>
        LET src == FzSurvivors(fz_ranked)
        IN  /\ Len(fz_result) <= extract_limit
            /\ \A k \in 1 .. Len(fz_result) - 1 : fz_result[k][2] >= fz_result[k + 1][2]
            /\ \A k \in DOMAIN fz_result : fz_result[k][2] >= threshold_default
            /\ Len(fz_result) = Len(src)
            /\ \A k \in DOMAIN fz_result :
                   fz_result[k][1] = fz_table[src[k]].Authorname

--------------------------------------------------------------------------
\* the merge step on its own: every table of at most MaxRawRows rows, as
\* Table.read returns it, over MaxNames author names

MaxRawRows == 3
MaxNames == 3

RawAffiliations == {"u", "v"}

RawRows ==
    [Authorname : 1 .. MaxNames, Firstname : {<<"a">>, <<"A">>},
     Lastname : {<<"b">>}, Affiliation : RawAffiliations]

MInit ==
    /\ m_raw \in SeqsUpTo(RawRows, MaxRawRows)
    /\ m_table = <<>>
    /\ m_pc = "read"
    /\ ResIdle /\ FzIdle /\ AffIdle /\ MainIdle

Merge ==
    /\ m_pc = "read"
    /\ Len(m_raw) > 0
    /\ m_table' = merge_affiliations(m_raw)
    /\ m_pc' = "merged"
    /\ UNCHANGED <<m_raw, resVars, fzVars, affVars, mainVars>>

\* np.amax of the empty array of counts raises ValueError (line 182)
MergeEmpty ==
    /\ m_pc = "read"
    /\ Len(m_raw) = 0
    /\ m_pc' = "raised"
    /\ UNCHANGED <<m_raw, m_table, resVars, fzVars, affVars, mainVars>>

MNext == Merge \/ MergeEmpty

SpecMerge == MInit /\ [][MNext]_vars

\* the input rows of one author, and the j-th of them in input order
MRowsOf(name) == {k \in DOMAIN m_raw : m_raw[k].Authorname = name}

MNthRowOf(name, j) ==
    CHOOSE k \in MRowsOf(name) : Cardinality({h \in MRowsOf(name) : h < k}) = j - 1

\* C4: after the merge the table has exactly one row per distinct
\* Authorname of the input, and the row's Affiliations are the Affiliation
\* values of the input rows of that Authorname in input row order, followed
\* by blank padding only.
C4_OneRowPerAuthorname ==
    m_pc = "merged" =>
        LET names == {m_raw[k].Authorname : k \in DOMAIN m_raw}
        IN  /\ Len(m_table) = Cardinality(names)
            /\ \A name \in names :
                   Cardinality({i \in DOMAIN m_table : m_table[i].Authorname = name}) = 1
            /\ \A i \in DOMAIN m_table :
                   LET name == m_table[i].Authorname
                       count == Cardinality(MRowsOf(name))
                       affls == m_table[i].Affiliations
                   IN  /\ Len(affls) >= count
                       /\ \A j \in 1 .. Len(affls) :
                              IF j <= count
                              THEN /\ affls[j] # ""
                                   /\ affls[j] = m_raw[MNthRowOf(name, j)].Affiliation
                              ELSE affls[j] = ""

\* an author whose two rows, with different affiliations, are separated by
\* the row of another author who sorts first
C4_Witness ==
    /\ m_pc = "merged"
    /\ Len(m_raw) = 3
    /\ m_raw[1].Authorname = 2 /\ m_raw[1].Affiliation = "v"
    /\ m_raw[2].Authorname = 1
    /\ m_raw[3].Authorname = 2 /\ m_raw[3].Affiliation = "u"
    /\ Len(m_table) = 2
    /\ m_table[2].Affiliations = <<"v", "u">>
    /\ m_table[1].Affiliations[2] = ""

--------------------------------------------------------------------------
\* generate_numbered_affiliation_output on its own: every table of at most
\* MaxAffRows rows of at most MaxSlots affiliations each, padded with
\* blanks to the width of the widest row as the merge leaves them

MaxAffRows == 2
MaxSlots == 2

AffNames == {"u", "v", "w"}

AffLists == {q \in SeqsUpTo(AffNames, MaxSlots) : Len(q) >= 1}

padded(lists) ==
    LET width == IF lists = <<>> THEN 0 ELSE amax([k \in DOMAIN lists |-> Len(lists[k])])
    IN  [k \in DOMAIN lists |->
            [Authorname |-> k,
             Affiliations |-> [j \in 1 .. width |->
                                  IF j <= Len(lists[k]) THEN lists[k][j] ELSE ""]]]

AffInit ==
    /\ aff_table \in {padded(lists) : lists \in SeqsUpTo(AffLists, MaxAffRows)}
    /\ affiliation_to_number = <<>>
    /\ authors_file = <<>>
    /\ affiliations_file = <<>>
    /\ aff_pc = "call"
    /\ ResIdle /\ FzIdle /\ MIdle /\ MainIdle

GenerateNumbered ==
    /\ aff_pc = "call"
    /\ affiliation_to_number' = first_pass(aff_table)
    /\ authors_file' = authors_lines(affiliation_to_number', aff_table)
    /\ affiliations_file' = affiliations_lines(affiliation_to_number')
    /\ aff_pc' = "written"
    /\ UNCHANGED <<aff_table, resVars, fzVars, mVars, mainVars>>

AffNext == GenerateNumbered

SpecAffil == AffInit /\ [][AffNext]_vars

\* the affiliations of the table in scan order: rows in table order, slots
\* in slot order, blanks left out
RECURSIVE AffScan(_)
AffScan(tbl) ==
    IF tbl = <<>> THEN <<>>
    ELSE SelectSeq(Head(tbl).Affiliations, LAMBDA a : a # "") \o AffScan(Tail(tbl))

AffFirstSeen(scan, a) == CHOOSE p \in DOMAIN scan : scan[p] = a /\ \A q \in 1 .. p - 1 : scan[q] # a

\* C9: every distinct non-blank affiliation of the table has exactly one
\* number, the numbers are 1..M in order of first appearance (rows in table
\* order, slots in slot order), every author line lists the numbers of the
\* author's non-blank affiliations in slot order, and the legend lists each
\* affiliation once, by ascending number.
C9_NumberedByFirstAppearance ==
    aff_pc = "written" =>
        LET scan == AffScan(aff_table)
            distinct == {scan[p] : p \in DOMAIN scan}
            M == Cardinality(distinct)
            map == affiliation_to_number
        IN  /\ DOMAIN map = distinct
            /\ {map[a] : a \in distinct} = 1 .. M
            /\ \A a, b \in distinct :
                   AffFirstSeen(scan, a) < AffFirstSeen(scan, b) => map[a] < map[b]
            /\ Len(authors_file) = Len(aff_table)
            /\ \A k \in DOMAIN aff_table :
                   LET own == SelectSeq(aff_table[k].Affiliations, LAMBDA a : a # "")
                   IN  /\ authors_file[k].name = aff_table[k].Authorname
                       /\ Len(authors_file[k].numbers) = Len(own)
                       /\ \A j \in DOMAIN own : authors_file[k].numbers[j] = map[own[j]]
            /\ Len(affiliations_file) = M
            /\ \A n \in 1 .. M :
                   /\ affiliations_file[n][2] = n
                   /\ affiliations_file[n][1] \in distinct
                   /\ map[affiliations_file[n][1]] = n

\* three affiliations over two rows, the second row repeating one of the
\* first row before a new one
C9_Witness ==
    /\ aff_pc = "written"
    /\ Len(aff_table) = 2
    /\ aff_table[1].Affiliations = <<"v", "u">>
    /\ aff_table[2].Affiliations = <<"u", "w">>
    /\ authors_file[2].numbers = <<2, 3>>
    /\ Len(affiliations_file) = 3

--------------------------------------------------------------------------
\* main() (lines 145-362), one action per step.  The command line is fixed
\* at the start; the content of a file is chosen when the file is read.

MaxMainRows == 3
MaxFirstTier == 2
MaxInfra == 2

otherVars == <<resVars, fzVars, mVars, affVars>>

\* the rows of the input CSV: three authors, two of whom have the same name
\* up to case and a trailing comma
MainRawRows ==
    {[Authorname |-> 1, Firstname |-> <<"a">>, Lastname |-> <<"b">>, Affiliation |-> "u"],
     [Authorname |-> 2, Firstname |-> <<"A">>, Lastname |-> <<"B", ",">>, Affiliation |-> "u"],
     [Authorname |-> 3, Firstname |-> <<"a">>, Lastname |-> <<"a">>, Affiliation |-> "u"]}

MainFirstTierLines == {<<" ", "a", " ", "b">>, <<"a", " ", "a">>, <<>>}
MainInfraLines == {<<"A", " ", "B">>, <<"a", " ", "a">>}
MainScores == {60, 90}

\* the users table: one entry for author 1, two for author 3, none for 2
MainUsers ==
    <<[Name |-> <<"b", ",", "&", "n", "b", "s", "p", ";", "a">>, Email |-> "e"],
      [Name |-> <<"a", ",", "&", "n", "b", "s", "p", ";", "a">>, Email |-> "f"],
      [Name |-> <<"a", ",", "&", "n", "b", "s", "p", ";", "a">>, Email |-> "g"]>>

MainInit ==
    /\ pc = "start"
    /\ args \in [alt_authors_tex : BOOLEAN, alt_affiliations_tex : BOOLEAN,
                 no_fuzzy_matching : BOOLEAN]
    /\ first_tier_authors = <<>>
    /\ infrastructure_authors = <<>>
    /\ table = <<>>
    /\ current_order = 0
    /\ idx = 0
    /\ first_tier_author_names = {}
    /\ infrastructure_found = <<>>
    /\ unmatched_infrastructure = <<>>
    /\ available_matches = <<>>
    /\ files_read = {}
    /\ files_written = <<>>
    /\ exit_status = -1
    /\ tier1_resolved = <<>>
    /\ infra_log = <<>>
    /\ placed_by = <<>>
    /\ ResIdle /\ FzIdle /\ MIdle /\ AffIdle

\* sys.exit(1), or an exception no handler catches
Abort ==
    /\ pc' = "exited"
    /\ exit_status' = 1

\* the paired-flag check placed after the first file is opened
CheckFlagsLate ==
    /\ pc = "start"
    /\ files_read' = files_read \cup {"first_tier"}
    /\ IF args.alt_authors_tex # args.alt_affiliations_tex
       THEN Abort
       ELSE pc' = "parse_first" /\ UNCHANGED exit_status
    /\ UNCHANGED <<args, first_tier_authors, infrastructure_authors, table, current_order,
                   idx, first_tier_author_names, infrastructure_found,
                   unmatched_infrastructure, available_matches, files_written,
                   tier1_resolved, infra_log, placed_by, otherVars>>

\* lines 160-163
CheckFlags ==
    /\ pc = "start"
    /\ IF args.alt_authors_tex # args.alt_affiliations_tex
       THEN Abort
       ELSE pc' = "parse_first" /\ UNCHANGED exit_status
    /\ UNCHANGED <<args, first_tier_authors, infrastructure_authors, table, current_order,
                   idx, first_tier_author_names, infrastructure_found,
                   unmatched_infrastructure, available_matches, files_read, files_written,
                   tier1_resolved, infra_log, placed_by, otherVars>>

\* line 166, parse_author_list: the file is missing
ParseFirstTierMissing ==
    /\ pc = "parse_first"
    /\ Abort
    /\ UNCHANGED <<args, first_tier_authors, infrastructure_authors, table, current_order,
                   idx, first_tier_author_names, infrastructure_found,
                   unmatched_infrastructure, available_matches, files_read, files_written,
                   tier1_resolved, infra_log, placed_by, otherVars>>

\* line 166, parse_author_list
ParseFirstTier ==
    /\ pc = "parse_first"
    /\ \E lines \in SeqsUpTo(MainFirstTierLines, MaxFirstTier) :
          first_tier_authors' = parse_author_list(lines)
    /\ files_read' = files_read \cup {"first_tier"}
    /\ pc' = "parse_infra"
    /\ UNCHANGED <<args, infrastructure_authors, table, current_order,
                   idx, first_tier_author_names, infrastructure_found,
                   unmatched_infrastructure, available_matches, files_written,
                   exit_status, tier1_resolved, infra_log, placed_by, otherVars>>

\* line 167, parse_author_list: the file is missing
ParseInfrastructureMissing ==
    /\ pc = "parse_infra"
    /\ Abort
    /\ UNCHANGED <<args, first_tier_authors, infrastructure_authors, table, current_order,
                   idx, first_tier_author_names, infrastructure_found,
                   unmatched_infrastructure, available_matches, files_read, files_written,
                   tier1_resolved, infra_log, placed_by, otherVars>>

\* line 167, parse_author_list
ParseInfrastructure ==
    /\ pc = "parse_infra"
    /\ \E lines \in SeqsUpTo(MainInfraLines, MaxInfra) :
          infrastructure_authors' = parse_author_list(lines)
    /\ files_read' = files_read \cup {"infrastructure"}
    /\ pc' = "read_table"
    /\ UNCHANGED <<args, first_tier_authors, table, current_order,
                   idx, first_tier_author_names, infrastructure_found,
                   unmatched_infrastructure, available_matches, files_written,
                   exit_status, tier1_resolved, infra_log, placed_by, otherVars>>

\* lines 173-177: the input CSV is missing
ReadTableMissing ==
    /\ pc = "read_table"
    /\ Abort
    /\ UNCHANGED <<args, first_tier_authors, infrastructure_authors, table, current_order,
                   idx, first_tier_author_names, infrastructure_found,
                   unmatched_infrastructure, available_matches, files_read, files_written,
                   tier1_resolved, infra_log, placed_by, otherVars>>

\* lines 173-174
ReadTable ==
    /\ pc = "read_table"
    /\ table' \in SeqsUpTo(MainRawRows, MaxMainRows)
    /\ files_read' = files_read \cup {"input_csv"}
    /\ pc' = "merge"
    /\ UNCHANGED <<args, first_tier_authors, infrastructure_authors, current_order,
                   idx, first_tier_author_names, infrastructure_found,
                   unmatched_infrastructure, available_matches, files_written,
                   exit_status, tier1_resolved, infra_log, placed_by, otherVars>>

\* lines 181-183 on a table without rows: np.amax raises ValueError
MergeRowsEmpty ==
    /\ pc = "merge"
    /\ Len(table) = 0
    /\ Abort
    /\ UNCHANGED <<args, first_tier_authors, infrastructure_authors, table, current_order,
                   idx, first_tier_author_names, infrastructure_found,
                   unmatched_infrastructure, available_matches, files_read, files_written,
                   tier1_resolved, infra_log, placed_by, otherVars>>

\* lines 181-190
MergeRows ==
    /\ pc = "merge"
    /\ Len(table) > 0
    /\ table' = merge_affiliations(table)
    /\ pc' = "emails"
    /\ UNCHANGED <<args, first_tier_authors, infrastructure_authors, current_order,
                   idx, first_tier_author_names, infrastructure_found,
                   unmatched_infrastructure, available_matches, files_read, files_written,
                   exit_status, tier1_resolved, infra_log, placed_by, otherVars>>

\* lines 193-208 when the users file is missing: blank emails, then the
\* default Order and the counter
AddEmailsMissing ==
    /\ pc = "emails"
    /\ table' = [k \in DOMAIN table |->
                    [Authorname |-> table[k].Authorname, Firstname |-> table[k].Firstname,
                     Lastname |-> table[k].Lastname,
                     Affiliations |-> table[k].Affiliations,
                     Email |-> "", Order |-> unassigned]]
    /\ current_order' = 1
    /\ idx' = 1
    /\ placed_by' = [a \in {table[k].Authorname : k \in DOMAIN table} |-> 0]
    /\ pc' = "tier1"
    /\ UNCHANGED <<args, first_tier_authors, infrastructure_authors,
                   first_tier_author_names, infrastructure_found,
                   unmatched_infrastructure, available_matches, files_read, files_written,
                   exit_status, tier1_resolved, infra_log, otherVars>>

\* lines 193-208: the emails, then the default Order and the counter
AddEmails ==
    /\ pc = "emails"
    /\ table' = [k \in DOMAIN table |->
                    [Authorname |-> table[k].Authorname, Firstname |-> table[k].Firstname,
                     Lastname |-> table[k].Lastname,
                     Affiliations |-> table[k].Affiliations,
                     Email |-> email_of(table[k], MainUsers), Order |-> unassigned]]
    /\ files_read' = files_read \cup {"users_csv"}
    /\ current_order' = 1
    /\ idx' = 1
    /\ placed_by' = [a \in {table[k].Authorname : k \in DOMAIN table} |-> 0]
    /\ pc' = "tier1"
    /\ UNCHANGED <<args, first_tier_authors, infrastructure_authors,
                   first_tier_author_names, infrastructure_found,
                   unmatched_infrastructure, available_matches, files_written,
                   exit_status, tier1_resolved, infra_log, otherVars>>

\* lines 211-216: a first-tier name that resolves to no row
Tier1Unresolved ==
    /\ pc = "tier1"
    /\ idx <= Len(first_tier_authors)
    /\ find_author_name_in_table(first_tier_authors[idx], table) = None
    /\ Abort
    /\ UNCHANGED <<args, first_tier_authors, infrastructure_authors, table, current_order,
                   idx, first_tier_author_names, infrastructure_found,
                   unmatched_infrastructure, available_matches, files_read, files_written,
                   tier1_resolved, infra_log, placed_by, otherVars>>

\* lines 211-223, one first-tier name.  The second exit (lines 219-221) is
\* never taken: the Authorname comes from a row of the table.
Tier1Step ==
    /\ pc = "tier1"
    /\ idx <= Len(first_tier_authors)
    /\ LET table_author_name == find_author_name_in_table(first_tier_authors[idx], table)
       IN  /\ table_author_name # None
           /\ table' = set_order(table, table_author_name, current_order)
           /\ tier1_resolved' = Append(tier1_resolved, table_author_name)
           /\ placed_by' = placed(placed_by, table_author_name, 1)
    /\ current_order' = current_order + 1
    /\ idx' = idx + 1
    /\ UNCHANGED <<pc, args, first_tier_authors, infrastructure_authors,
                   first_tier_author_names, infrastructure_found,
                   unmatched_infrastructure, available_matches, files_read, files_written,
                   exit_status, infra_log, otherVars>>

\* lines 227-236, after the first-tier loop
Tier1Done ==
    /\ pc = "tier1"
    /\ idx > Len(first_tier_authors)
    /\ first_tier_author_names' = resolved_first_tier(first_tier_authors, table)
    /\ infrastructure_found' = <<>>
    /\ unmatched_infrastructure' = <<>>
    /\ idx' = 1
    /\ pc' = "tier2"
    /\ UNCHANGED <<args, first_tier_authors, infrastructure_authors, table, current_order,
                   available_matches, files_read, files_written,
                   exit_status, tier1_resolved, infra_log, placed_by, otherVars>>

\* the entry of the history for one infrastructure name: the result of the
\* exact resolution, whether the operator confirmed a fuzzy match, and the
\* Authorname collected for tier 2 (None when there is none)
LogEntry(name, exact, confirmed, added) ==
    [name |-> name, exact |-> exact, confirmed |-> confirmed, added |-> added]

\* lines 238-241: the name is literally in the first-tier list
Tier2Skip ==
    /\ pc = "tier2"
    /\ idx <= Len(infrastructure_authors)
    /\ \E i \in DOMAIN first_tier_authors : first_tier_authors[i] = infrastructure_authors[idx]
    /\ idx' = idx + 1
    /\ UNCHANGED <<pc, args, first_tier_authors, infrastructure_authors, table,
                   current_order, first_tier_author_names, infrastructure_found,
                   unmatched_infrastructure, available_matches, files_read, files_written,
                   exit_status, tier1_resolved, infra_log, placed_by, otherVars>>

\* lines 244-251: the exact match
Tier2Exact ==
    /\ pc = "tier2"
    /\ idx <= Len(infrastructure_authors)
    /\ \A i \in DOMAIN first_tier_authors : first_tier_authors[i] # infrastructure_authors[idx]
    /\ LET author_name == infrastructure_authors[idx]
           table_author_name == find_author_name_in_table(author_name, table)
       IN  /\ is_exact_match(table_author_name, first_tier_author_names)
           /\ infrastructure_found' =
                  Append(infrastructure_found,
                         <<table_author_name, lastname_of(table, table_author_name)>>)
           /\ infra_log' = Append(infra_log, LogEntry(author_name, table_author_name,
                                                      FALSE, table_author_name))
    /\ idx' = idx + 1
    /\ UNCHANGED <<pc, args, first_tier_authors, infrastructure_authors, table,
                   current_order, first_tier_author_names,
                   unmatched_infrastructure, available_matches, files_read, files_written,
                   exit_status, tier1_resolved, placed_by, otherVars>>

\* lines 252-255, 283-288: no exact match, fuzzy matching disabled
Tier2NoFuzzy ==
    /\ pc = "tier2"
    /\ idx <= Len(infrastructure_authors)
    /\ \A i \in DOMAIN first_tier_authors : first_tier_authors[i] # infrastructure_authors[idx]
    /\ args.no_fuzzy_matching
    /\ LET author_name == infrastructure_authors[idx]
           table_author_name == find_author_name_in_table(author_name, table)
       IN  /\ ~is_exact_match(table_author_name, first_tier_author_names)
           /\ unmatched_infrastructure' = Append(unmatched_infrastructure, author_name)
           /\ infra_log' = Append(infra_log, LogEntry(author_name, table_author_name,
                                                      FALSE, None))
    /\ idx' = idx + 1
    /\ UNCHANGED <<pc, args, first_tier_authors, infrastructure_authors, table,
                   current_order, first_tier_author_names, infrastructure_found,
                   available_matches, files_read, files_written,
                   exit_status, tier1_resolved, placed_by, otherVars>>

\* lines 252-267, 279-288: no exact match, the fuzzy matches are computed;
\* without a match that is not first-tier the name is unmatched, otherwise
\* the operator is asked
Tier2Fuzzy ==
    /\ pc = "tier2"
    /\ idx <= Len(infrastructure_authors)
    /\ \A i \in DOMAIN first_tier_authors : first_tier_authors[i] # infrastructure_authors[idx]
    /\ ~args.no_fuzzy_matching
    /\ LET author_name == infrastructure_authors[idx]
           table_author_name == find_author_name_in_table(author_name, table)
           choices == [k \in DOMAIN table |-> full_names_of(table)[k][1]]
       IN  /\ ~is_exact_match(table_author_name, first_tier_author_names)
           /\ \E score \in [{choices[k] : k \in DOMAIN choices} -> MainScores] :
              \E ranked \in process_extract(score, choices, extract_limit) :
                 LET closest_matches ==
                         find_closest_author_match(ranked, score, table, threshold_default)
                     available == available_of(closest_matches, first_tier_author_names)
                 IN  IF available = <<>>
                     THEN /\ unmatched_infrastructure' =
                                 Append(unmatched_infrastructure, author_name)
                          /\ infra_log' = Append(infra_log,
                                 LogEntry(author_name, table_author_name, FALSE, None))
                          /\ idx' = idx + 1
                          /\ UNCHANGED <<pc, available_matches>>
                     ELSE /\ available_matches' = available
                          /\ pc' = "prompt"
                          /\ UNCHANGED <<unmatched_infrastructure, infra_log, idx>>
    /\ UNCHANGED <<args, first_tier_authors, infrastructure_authors, table,
                   current_order, first_tier_author_names, infrastructure_found,
                   files_read, files_written,
                   exit_status, tier1_resolved, placed_by, otherVars>>

\* ask_user_confirmation (lines 84-96): an answer that is no number of the
\* list is refused and the question is asked again
AnswerInvalid ==
    /\ pc = "prompt"
    /\ UNCHANGED vars

\* ask_user_confirmation returns None for 0 (lines 89-90, 277-278, 287-288)
AnswerNone ==
    /\ pc = "prompt"
    /\ LET author_name == infrastructure_authors[idx]
       IN  /\ unmatched_infrastructure' = Append(unmatched_infrastructure, author_name)
           /\ infra_log' = Append(infra_log,
                  LogEntry(author_name, find_author_name_in_table(author_name, table),
                           FALSE, None))
    /\ available_matches' = <<>>
    /\ idx' = idx + 1
    /\ pc' = "tier2"
    /\ UNCHANGED <<args, first_tier_authors, infrastructure_authors, table,
                   current_order, first_tier_author_names, infrastructure_found,
                   files_read, files_written,
                   exit_status, tier1_resolved, placed_by, otherVars>>

\* ask_user_confirmation returns the selected match (lines 91-92, 269-276)
AnswerSelect ==
    /\ pc = "prompt"
    /\ \E choice \in 1 .. Len(available_matches) :
          LET author_name == infrastructure_authors[idx]
              selected_author_name == available_matches[choice][1]
          IN  /\ infrastructure_found' =
                     Append(infrastructure_found,
                            <<selected_author_name, lastname_of(table, selected_author_name)>>)
              /\ infra_log' = Append(infra_log,
                     LogEntry(author_name, find_author_name_in_table(author_name, table),
                              TRUE, selected_author_name))
    /\ available_matches' = <<>>
    /\ idx' = idx + 1
    /\ pc' = "tier2"
    /\ UNCHANGED <<args, first_tier_authors, infrastructure_authors, table,
                   current_order, first_tier_author_names,
                   unmatched_infrastructure, files_read, files_written,
                   exit_status, tier1_resolved, placed_by, otherVars>>

\* lines 290-297, after the infrastructure loop
Tier2Assign ==
    /\ pc = "tier2"
    /\ idx > Len(infrastructure_authors)
    /\ LET infrastructure_sorted == sorted_by_lastname(infrastructure_found)
           done == assign_orders([tbl |-> table, order |-> current_order, by |-> placed_by],
                                 infrastructure_sorted, 2)
       IN  /\ table' = done.tbl
           /\ current_order' = done.order
           /\ placed_by' = done.by
    /\ pc' = "tier3"
    /\ UNCHANGED <<args, first_tier_authors, infrastructure_authors, idx,
                   first_tier_author_names, infrastructure_found,
                   unmatched_infrastructure, available_matches, files_read, files_written,
                   exit_status, tier1_resolved, infra_log, otherVars>>

\* lines 299-311
Tier3 ==
    /\ pc = "tier3"
    /\ LET remaining_sorted == sorted_by_lastname(remaining_authors(table))
           done == assign_orders([tbl |-> table, order |-> current_order, by |-> placed_by],
                                 remaining_sorted, 3)
       IN  /\ table' = done.tbl
           /\ current_order' = done.order
           /\ placed_by' = done.by
    /\ pc' = "sort"
    /\ UNCHANGED <<args, first_tier_authors, infrastructure_authors, idx,
                   first_tier_author_names, infrastructure_found,
                   unmatched_infrastructure, available_matches, files_read, files_written,
                   exit_status, tier1_resolved, infra_log, otherVars>>

\* lines 313-315
SortRenumber ==
    /\ pc = "sort"
    /\ table' = renumber(sort_by_order(table))
    /\ pc' = "write_tex"
    /\ UNCHANGED <<args, first_tier_authors, infrastructure_authors, current_order, idx,
                   first_tier_author_names, infrastructure_found,
                   unmatched_infrastructure, available_matches, files_read, files_written,
                   exit_status, tier1_resolved, infra_log, placed_by, otherVars>>

\* lines 317-340
WriteTex ==
    /\ pc = "write_tex"
    /\ files_written' = Append(files_written, "output_tex")
    /\ pc' = "write_csv"
    /\ UNCHANGED <<args, first_tier_authors, infrastructure_authors, table, current_order,
                   idx, first_tier_author_names, infrastructure_found,
                   unmatched_infrastructure, available_matches, files_read,
                   exit_status, tier1_resolved, infra_log, placed_by, otherVars>>

\* lines 345-349
WriteCsv ==
    /\ pc = "write_csv"
    /\ files_written' = Append(files_written, "output_csv")
    /\ pc' = "write_alt"
    /\ UNCHANGED <<args, first_tier_authors, infrastructure_authors, table, current_order,
                   idx, first_tier_author_names, infrastructure_found,
                   unmatched_infrastructure, available_matches, files_read,
                   exit_status, tier1_resolved, infra_log, placed_by, otherVars>>

\* lines 351-354: generate_numbered_affiliation_output on the final table
WriteAlt ==
    /\ pc = "write_alt"
    /\ args.alt_authors_tex /\ args.alt_affiliations_tex
    /\ affiliation_to_number' = first_pass(table)
    /\ authors_file' = authors_lines(affiliation_to_number', table)
    /\ affiliations_file' = affiliations_lines(affiliation_to_number')
    /\ files_written' = files_written \o <<"alt_authors_tex", "alt_affiliations_tex">>
    /\ pc' = "report"
    /\ UNCHANGED <<args, first_tier_authors, infrastructure_authors, table, current_order,
                   idx, first_tier_author_names, infrastructure_found,
                   unmatched_infrastructure, available_matches, files_read,
                   exit_status, tier1_resolved, infra_log, placed_by,
                   aff_table, aff_pc, resVars, fzVars, mVars>>

\* line 351: the alternative output was not asked for
SkipAlt ==
    /\ pc = "write_alt"
    /\ ~(args.alt_authors_tex /\ args.alt_affiliations_tex)
    /\ pc' = "report"
    /\ UNCHANGED <<args, first_tier_authors, infrastructure_authors, table, current_order,
                   idx, first_tier_author_names, infrastructure_found,
                   unmatched_infrastructure, available_matches, files_read, files_written,
                   exit_status, tier1_resolved, infra_log, placed_by, otherVars>>

\* lines 356-362: the report of unmatched_infrastructure, and the end of main
Report ==
    /\ pc = "report"
    /\ pc' = "done"
    /\ exit_status' = 0
    /\ UNCHANGED <<args, first_tier_authors, infrastructure_authors, table, current_order,
                   idx, first_tier_author_names, infrastructure_found,
                   unmatched_infrastructure, available_matches, files_read, files_written,
                   tier1_resolved, infra_log, placed_by, otherVars>>

Next ==
    \/ CheckFlags
    \/ ParseFirstTierMissing
    \/ ParseFirstTier
    \/ ParseInfrastructureMissing
    \/ ParseInfrastructure
    \/ ReadTableMissing
    \/ ReadTable
    \/ MergeRowsEmpty
    \/ MergeRows
    \/ AddEmailsMissing
    \/ AddEmails
    \/ Tier1Unresolved
    \/ Tier1Step
    \/ Tier1Done
    \/ Tier2Skip
    \/ Tier2Exact
    \/ Tier2NoFuzzy
    \/ Tier2Fuzzy
    \/ AnswerInvalid
    \/ AnswerNone
    \/ AnswerSelect
    \/ Tier2Assign
    \/ Tier3
    \/ SortRenumber
    \/ WriteTex
    \/ WriteCsv
    \/ WriteAlt
    \/ SkipAlt
    \/ Report

Spec == MainInit /\ [][Next]_vars

--------------------------------------------------------------------------
\* the claims about main()

\* the table has its final Order values
Final == pc \in {"write_tex", "write_csv", "write_alt", "report", "done"}

Tier1Names == {tier1_resolved[i] : i \in DOMAIN tier1_resolved}

OrderOf(author_name) ==
    table[CHOOSE k \in DOMAIN table : table[k].Authorname = author_name].Order

\* C1: in every run that completes, the final Order values are exactly
\* 1..N, N the number of rows after the merge: every row has one, no two
\* rows share one and there is no gap, whatever gaps the tiers left.
C1_OrdersAreDense ==
    Final =>
        /\ Len(table) = Cardinality(DOMAIN placed_by)
        /\ {table[k].Order : k \in DOMAIN table} = 1 .. Len(table)
        /\ \A i, j \in DOMAIN table : i # j => table[i].Order # table[j].Order

\* a completed run in which two first-tier lines resolved to the same row,
\* so that the counter ran past the number of rows
C1_Witness ==
    /\ pc = "done"
    /\ Len(table) >= 2
    /\ current_order - 1 > Len(table)
    /\ \E i, j \in DOMAIN tier1_resolved : i # j /\ tier1_resolved[i] = tier1_resolved[j]

\* C2 as stated: when every first-tier name resolves, the author resolved
\* from the i-th line of the first-tier file has Order i in the final
\* table, for every first-tier list, also one in which two lines resolve to
\* the same row.
C2_FirstTierOrderIsLineNumber ==
    pc = "done" =>
        \A i \in DOMAIN tier1_resolved : OrderOf(tier1_resolved[i]) = i

\* C2 amended: when every first-tier name resolves and no two lines resolve
\* to the same row (and there are fewer lines than the default Order
\* 99999), the author resolved from the i-th line has Order i.
C2_DistinctFirstTierOrderIsLineNumber ==
    (/\ pc = "done"
     /\ Len(tier1_resolved) < unassigned
     /\ \A i, j \in DOMAIN tier1_resolved : i # j => tier1_resolved[i] # tier1_resolved[j])
    => \A i \in DOMAIN tier1_resolved : OrderOf(tier1_resolved[i]) = i

\* a completed run with two first-tier lines resolved to two rows, the
\* first of which an infrastructure name resolves to as well
C2_Witness ==
    /\ pc = "done"
    /\ Len(tier1_resolved) = 2
    /\ tier1_resolved[1] # tier1_resolved[2]
    /\ \E n \in DOMAIN infra_log : infra_log[n].exact = tier1_resolved[1]
    /\ OrderOf(tier1_resolved[2]) = 2

C7_FatalExitBeforeOutput ==
    /\ exit_status = 1 => files_written = <<>>
    /\ (pc = "exited" /\ args.alt_authors_tex # args.alt_affiliations_tex)
           => files_read = {}

\* the exit for the second first-tier name, after every input file was read
\* and the first name was given its Order
C7_Witness ==
    /\ pc = "exited"
    /\ exit_status = 1
    /\ idx = 2
    /\ {"first_tier", "infrastructure", "input_csv", "users_csv"} \subseteq files_read
    /\ files_written = <<>>

\* the names of the infrastructure entries that had no exact match in the
\* table and no confirmed fuzzy match, in file order
RECURSIVE NoMatchNames(_)
NoMatchNames(log) ==
    IF log = <<>> THEN <<>>
    ELSE (IF Head(log).exact = None /\ ~Head(log).confirmed
          THEN <<Head(log).name>> ELSE <<>>) \o NoMatchNames(Tail(log))

\* C8: an infrastructure name never aborts the run, and at the end of a
\* completed run the unmatched list holds exactly the infrastructure names
\* (not literally in the first-tier list) with no exact match in the table
\* and no operator-confirmed fuzzy match; a name that the exact resolution
\* resolved to a row is never reported as not found.
C8_UnmatchedAreTheNamesWithoutMatch ==
    /\ (pc = "exited" => infra_log = <<>>)
    /\ pc = "done" =>
          /\ unmatched_infrastructure = NoMatchNames(infra_log)
          /\ \A n \in DOMAIN infra_log :
                infra_log[n].exact # None =>
                    \A u \in DOMAIN unmatched_infrastructure :
                        unmatched_infrastructure[u] # infra_log[n].name

\* C10: tier 2 never sets the Order of a row that tier 1 resolved: such a
\* row is never collected for tier 2, neither by exact resolution nor by
\* the operator's choice, and is never offered at the prompt; in the final
\* table every tier-1 row precedes every tier-2 row and every tier-2 row
\* precedes every tier-3 row.
C10_Tier2KeepsOffTier1 ==
    /\ \A a \in Tier1Names : placed_by[a] = 1
    /\ \A n \in DOMAIN infrastructure_found : infrastructure_found[n][1] \notin Tier1Names
    /\ pc = "prompt" =>
          \A m \in DOMAIN available_matches : available_matches[m][1] \notin Tier1Names
    /\ Final =>
          /\ \A k \in DOMAIN table : placed_by[table[k].Authorname] \in 1 .. 3
          /\ \A i, j \in DOMAIN table :
                i < j => placed_by[table[i].Authorname] <= placed_by[table[j].Authorname]

\* a completed run with a row of every tier, in which an infrastructure
\* name spelled differently resolved to the tier-1 row and the operator
\* chose another candidate
C10_Witness ==
    /\ pc = "done"
    /\ Len(table) = 3
    /\ placed_by[table[1].Authorname] = 1
    /\ placed_by[table[2].Authorname] = 2
    /\ placed_by[table[3].Authorname] = 3
    /\ \E n \in DOMAIN infra_log :
          /\ infra_log[n].exact \in Tier1Names
          /\ infra_log[n].confirmed

====
